---- MODULE Spec2Model ----
(***************************************************************************)
(* The invoice backend of qris-pay-backend (the Express server, lines      *)
(* 219-564 of src/README.md): the invoice collection, the rate limiter,    *)
(* and the route handlers, each split at its awaits on the store.          *)
(*                                                                         *)
(* A JSON object is a function from its keys to its values, so that a      *)
(* missing key is a key outside DOMAIN.  responses is the sequence of      *)
(* responses in the order they were sent; every entry carries the request  *)
(* it answers and what the handler wrote with console.error.               *)
(***************************************************************************)
EXTENDS Integers, Sequences, FiniteSets, TLC

VARIABLES
    env,        \* process.env.NODE_ENV
    store,      \* the documents of the Invoice collection
    inflight,   \* handlers suspended at an await, with their local variables
    responses,  \* the responses sent so far, oldest first
    hits,       \* the limiter's hit count of the client in the current window
    tick        \* logical time: Date.now() and the ObjectId counter

vars == <<env, store, inflight, responses, hits, tick>>

----------------------------------------------------------------------------
(* Bounds and program constants *)

\* Requests admitted in one behaviour.
MaxReqs == 2

\* limiter: max requests per window.
RateMax == 100

\* Defaults of the list route's query parameters.
DefaultLimit == 50
DefaultSkip == 0

Nums == {"INV-1", "INV-2"}

\* The values of NODE_ENV: "" is the variable left unset.
Envs == {"development", "production", ""}

----------------------------------------------------------------------------
(* JSON helpers *)

Has(obj, key) == key \in DOMAIN obj

Without(obj, key) == [k \in DOMAIN obj \ {key} |-> obj[k]]

With(obj, key, val) == [k \in DOMAIN obj \cup {key} |-> IF k = key THEN val ELSE obj[k]]

----------------------------------------------------------------------------
(* Request payloads *)

GoodItem == [id |-> "1", name |-> "Produk A", quantity |-> 2, price |-> 5, total |-> 10]

\* quantity below the schema's min of 1
BadItem == [id |-> "2", name |-> "Produk B", quantity |-> 0, price |-> 5, total |-> 0]

FullBody(n) ==
    [invoiceNumber |-> n,
     customerInfo |-> [name |-> "John Doe", email |-> "john@example.com"],
     items |-> <<GoodItem>>,
     subtotal |-> 10,
     total |-> 10,
     dynamicQRCode |-> "data:image/png;base64"]

Variants == {"noNumber", "noName", "noItems", "emptyItems", "badItem", "noSubtotal", "noQR"}

Vary(b, v) ==
    CASE v = "noNumber"   -> Without(b, "invoiceNumber")
      [] v = "noName"     -> With(b, "customerInfo", [email |-> "john@example.com"])
      [] v = "noItems"    -> Without(b, "items")
      [] v = "emptyItems" -> With(b, "items", <<>>)
      [] v = "badItem"    -> With(b, "items", <<BadItem>>)
      [] v = "noSubtotal" -> Without(b, "subtotal")
      [] v = "noQR"       -> Without(b, "dynamicQRCode")

\* The payloads a client sends: the README's example and its variants.
Bodies == {FullBody(n) : n \in Nums} \cup {Vary(FullBody(n), v) : n \in Nums, v \in Variants}

----------------------------------------------------------------------------
(* invoiceSchema *)

SchemaPaths == {"invoiceNumber", "merchantInfo", "customerInfo", "invoiceDetails", "items",
                "serviceFee", "feeType", "feeValue", "subtotal", "serviceFeeAmount",
                "total", "dynamicQRCode", "createdAt", "updatedAt"}

ItemValid(it) ==
    /\ Has(it, "name")
    /\ Has(it, "quantity") /\ it.quantity >= 1
    /\ Has(it, "price") /\ it.price >= 0
    /\ Has(it, "total") /\ it.total >= 0

\* The validation Mongoose runs in save(), before the insert.
SchemaValid(doc) ==
    /\ Has(doc, "invoiceNumber")
    /\ Has(doc, "customerInfo") /\ Has(doc.customerInfo, "name")
    /\ \A i \in 1..Len(doc.items) : ItemValid(doc.items[i])
    /\ Has(doc, "subtotal") /\ doc.subtotal >= 0
    /\ doc.serviceFeeAmount >= 0
    /\ Has(doc, "total") /\ doc.total >= 0

\* new Invoice(invoiceData): the payload's schema paths, the schema's defaults,
\* a fresh _id; createdAt and updatedAt are Date.now().
NewInvoice(invoiceData, t) ==
    [k \in DOMAIN invoiceData \cap SchemaPaths |-> invoiceData[k]]
      @@ [_id |-> t, items |-> <<>>, serviceFeeAmount |-> 0, createdAt |-> t, updatedAt |-> t]

----------------------------------------------------------------------------
(* The collection *)

\* Invoice.findOne({ invoiceNumber }): the set of the document found (empty: null).
FindOne(n) ==
    IF \E d \in store : d.invoiceNumber = n
    THEN {CHOOSE d \in store : d.invoiceNumber = n}
    ELSE {}

UniqueIndexOff(doc) == FALSE

\* The unique index on invoiceNumber rejects the insert (error code 11000).
DuplicateKey(doc) == \E d \in store : d.invoiceNumber = doc.invoiceNumber

E11000 == [name |-> "MongoServerError", code |-> 11000, message |-> "E11000 duplicate key error"]

ValidationError == [name |-> "ValidationError", message |-> "Invoice validation failed"]

\* Any other failure of a store call.
StoreError == [name |-> "MongoNetworkError", message |-> "connection timed out"]

----------------------------------------------------------------------------
(* Responses *)

Response(route, req, status, body, logged) ==
    [by |-> "handler", route |-> route, req |-> req, status |-> status, body |-> body,
     logged |-> logged]

Reply(r) == responses' = Append(responses, r)

\* process.env.NODE_ENV === 'development' ? error.message : generic
Details(error, generic) == IF env = "development" THEN error.message ELSE generic

Conflict == [success |-> FALSE, error |-> "Invoice number already exists"]

NotFound == [success |-> FALSE, error |-> "Invoice not found"]

\* A catch block without the branch for the unique index's error code.
SaveFailedNoDuplicateBranch(req, error) ==
    IF error.name = "ValidationError"
    THEN Response("POST /api/invoices", req, 400,
                  [success |-> FALSE, error |-> "Validation error", details |-> error.message],
                  error.name)
    ELSE Response("POST /api/invoices", req, 500,
                  [success |-> FALSE, error |-> "Failed to save invoice",
                   details |-> Details(error, "Internal server error")],
                  error.name)

\* The catch block of the create handler.
SaveFailed(req, error) ==
    IF Has(error, "code") /\ error.code = 11000
    THEN Response("POST /api/invoices", req, 409, Conflict, error.name)
    ELSE IF error.name = "ValidationError"
    THEN Response("POST /api/invoices", req, 400,
                  [success |-> FALSE, error |-> "Validation error", details |-> error.message],
                  error.name)
    ELSE Response("POST /api/invoices", req, 500,
                  [success |-> FALSE, error |-> "Failed to save invoice",
                   details |-> Details(error, "Internal server error")],
                  error.name)

\* The catch block of the get, list and delete handlers.
Failed(route, req, what, error) ==
    Response(route, req, 500,
             [success |-> FALSE, error |-> what,
              details |-> Details(error, "Internal server error")],
             error.name)

----------------------------------------------------------------------------
(* The rate limiter on /api/ *)

Admitted == Len(responses) + Cardinality(inflight)

Blocked == hits >= RateMax

\* A request the limiter lets through to its handler.  The window of 15 minutes
\* outlasts the requests followed here, so the count is never reset.
Pass ==
    /\ Admitted < MaxReqs
    /\ ~Blocked
    /\ hits' = hits + 1

\* The request after the max-th of the window: the limiter answers it itself.
TooManyRequests(route) ==
    /\ Admitted < MaxReqs
    /\ Blocked
    /\ Reply([Response(route, <<>>, 429,
                       [error |-> "Too many requests from this IP, please try again later."],
                       "none") EXCEPT !.by = "limiter"])
    /\ UNCHANGED <<env, store, inflight, hits, tick>>

----------------------------------------------------------------------------
(* POST /api/invoices *)

\* A required-fields check that looks at the invoice number alone.
MissingNumber(invoiceData) == ~Has(invoiceData, "invoiceNumber")

MissingRequired(invoiceData) ==
    \/ ~Has(invoiceData, "invoiceNumber")
    \/ ~Has(invoiceData, "customerInfo")
    \/ ~Has(invoiceData.customerInfo, "name")

\* An items check that also turns away the items the schema would reject.
NoItemsOrInvalid(invoiceData) ==
    \/ ~Has(invoiceData, "items")
    \/ Len(invoiceData.items) = 0
    \/ \E i \in 1..Len(invoiceData.items) : ~ItemValid(invoiceData.items[i])

NoItems(invoiceData) ==
    \/ ~Has(invoiceData, "items")
    \/ Len(invoiceData.items) = 0

\* The handler up to its first await: the validation and the findOne.
PostInvoices(invoiceData, storeFails) ==
    /\ Pass
    /\ IF MissingRequired(invoiceData)
       THEN /\ Reply(Response("POST /api/invoices", invoiceData, 400,
                              [success |-> FALSE,
                               error |-> "Missing required fields: invoiceNumber and customerInfo.name"],
                              "none"))
            /\ UNCHANGED <<store, inflight, tick>>
       ELSE IF NoItems(invoiceData)
       THEN /\ Reply(Response("POST /api/invoices", invoiceData, 400,
                              [success |-> FALSE, error |-> "At least one item is required"],
                              "none"))
            /\ UNCHANGED <<store, inflight, tick>>
       ELSE IF storeFails
       THEN /\ Reply(SaveFailed(invoiceData, StoreError))
            /\ UNCHANGED <<store, inflight, tick>>
       ELSE IF FindOne(invoiceData.invoiceNumber) # {}
       THEN /\ Reply(Response("POST /api/invoices", invoiceData, 409, Conflict, "none"))
            /\ UNCHANGED <<store, inflight, tick>>
       ELSE /\ inflight' = inflight \cup
                   {[rid |-> Admitted + 1, op |-> "save", req |-> invoiceData,
                     invoice |-> NewInvoice(invoiceData, tick)]}
            /\ tick' = tick + 1
            /\ UNCHANGED <<store, responses>>
    /\ UNCHANGED env

\* invoiceSchema.pre('save'): updatedAt = Date.now()
PreSave(invoice) == With(invoice, "updatedAt", tick)

\* invoice.save() and the response.
PostInvoicesSave(r, storeFails) ==
    /\ r \in inflight
    /\ r.op = "save"
    /\ inflight' = inflight \ {r}
    /\ LET savedInvoice == PreSave(r.invoice) IN
       IF ~SchemaValid(savedInvoice)
       THEN /\ Reply(SaveFailed(r.req, ValidationError))
            /\ UNCHANGED store
       ELSE IF storeFails
       THEN /\ Reply(SaveFailed(r.req, StoreError))
            /\ UNCHANGED store
       ELSE IF DuplicateKey(savedInvoice)
       THEN /\ Reply(SaveFailed(r.req, E11000))
            /\ UNCHANGED store
       ELSE /\ store' = store \cup {savedInvoice}
            /\ Reply(Response("POST /api/invoices", r.req, 201,
                              [success |-> TRUE, message |-> "Invoice saved successfully",
                               invoiceId |-> savedInvoice._id,
                               invoiceNumber |-> savedInvoice.invoiceNumber,
                               createdAt |-> savedInvoice.createdAt],
                              "none"))
    /\ UNCHANGED <<env, hits, tick>>

----------------------------------------------------------------------------
(* GET /api/invoices/:invoiceNumber *)

\* The list view's document, returned where the full document is meant.
FoundBodyListView(invoice) ==
    [success |-> TRUE, invoice |-> Without(invoice, "dynamicQRCode")]

FoundBody(invoice) == [success |-> TRUE, invoice |-> invoice]

GetInvoice(invoiceNumber, storeFails) ==
    /\ Pass
    /\ LET req == [invoiceNumber |-> invoiceNumber]
           invoice == FindOne(invoiceNumber)
       IN  IF storeFails
           THEN Reply(Failed("GET /api/invoices/:invoiceNumber", req,
                             "Failed to fetch invoice", StoreError))
           ELSE IF invoice = {}
           THEN Reply(Response("GET /api/invoices/:invoiceNumber", req, 404, NotFound, "none"))
           ELSE Reply(Response("GET /api/invoices/:invoiceNumber", req, 200,
                               FoundBody(CHOOSE d \in invoice : TRUE), "none"))
    /\ UNCHANGED <<env, store, inflight, tick>>

----------------------------------------------------------------------------
(* GET /api/invoices *)

\* Query strings as the client writes them; an absent parameter is an absent key.
LimitParams == {<<>>, [limit |-> "0"], [limit |-> "1"]}

SkipParams == {<<>>, [skip |-> "1"]}

SortParams == {<<>>, [sortOrder |-> "asc"]}

Queries == {l @@ s @@ o : l \in LimitParams, s \in SkipParams, o \in SortParams}

\* parseInt on the decimal strings of the queries.
ParseInt(str) ==
    CASE str = "0" -> 0
      [] str = "1" -> 1

\* const { limit = 50, skip = 0, sortBy = 'createdAt', sortOrder = 'desc' } = req.query,
\* limit and skip after parseInt.
Limit(query) == IF Has(query, "limit") THEN ParseInt(query.limit) ELSE DefaultLimit

Skip(query) == IF Has(query, "skip") THEN ParseInt(query.skip) ELSE DefaultSkip

SortBy(query) == IF Has(query, "sortBy") THEN query.sortBy ELSE "createdAt"

SortOrder(query) == IF Has(query, "sortOrder") THEN query.sortOrder ELSE "desc"

\* sortOptions[sortBy] = sortOrder === 'desc' ? -1 : 1
Direction(query) == IF SortOrder(query) = "desc" THEN -1 ELSE 1

\* d sorts before e; documents equal in the sort key keep their natural (_id) order.
Before(d, e, key, dir) ==
    \/ dir * d[key] < dir * e[key]
    \/ d[key] = e[key] /\ d._id <= e._id

RECURSIVE Sort(_, _, _)
Sort(docs, key, dir) ==
    IF docs = {}
    THEN <<>>
    ELSE LET first == CHOOSE d \in docs : \A e \in docs : Before(d, e, key, dir)
         IN  <<first>> \o Sort(docs \ {first}, key, dir)

\* cursor.skip(skip).limit(limit): a limit of 0 is no limit.
SkipLimit(sorted, limit, skip) ==
    IF limit = 0
    THEN SubSeq(sorted, skip + 1, Len(sorted))
    ELSE SubSeq(sorted, skip + 1, IF skip + limit < Len(sorted) THEN skip + limit ELSE Len(sorted))

\* .select('-dynamicQRCode')
Select(doc) == Without(doc, "dynamicQRCode")

\* Invoice.find().sort(sortOptions).limit(limit).skip(skip).select('-dynamicQRCode')
Find(query) ==
    LET page == SkipLimit(Sort(store, SortBy(query), Direction(query)), Limit(query), Skip(query))
    IN  [i \in 1..Len(page) |-> Select(page[i])]

\* The handler up to the find.
GetInvoices(query, storeFails) ==
    /\ Pass
    /\ IF storeFails
       THEN /\ Reply(Failed("GET /api/invoices", query, "Failed to fetch invoices", StoreError))
            /\ UNCHANGED inflight
       ELSE /\ inflight' = inflight \cup
                   {[rid |-> Admitted + 1, op |-> "count", req |-> query, invoices |-> Find(query)]}
            /\ UNCHANGED responses
    /\ UNCHANGED <<env, store, tick>>

\* Invoice.countDocuments() and the response.
GetInvoicesCount(r, storeFails) ==
    /\ r \in inflight
    /\ r.op = "count"
    /\ inflight' = inflight \ {r}
    /\ IF storeFails
       THEN Reply(Failed("GET /api/invoices", r.req, "Failed to fetch invoices", StoreError))
       ELSE LET total == Cardinality(store) IN
            Reply(Response("GET /api/invoices", r.req, 200,
                           [success |-> TRUE,
                            invoices |-> r.invoices,
                            pagination |-> [total |-> total,
                                            limit |-> Limit(r.req),
                                            skip |-> Skip(r.req),
                                            hasMore |-> Skip(r.req) + Limit(r.req) < total]],
                           "none"))
    /\ UNCHANGED <<env, store, hits, tick>>

----------------------------------------------------------------------------
(* DELETE /api/invoices/:invoiceNumber *)

\* A find that leaves the document in the collection.
KeepAll(deletedInvoice) == store

\* A delete whose filter matches every document.
RemoveAll(deletedInvoice) == {}

\* The collection after findOneAndDelete has removed the document it found.
Remove(deletedInvoice) == store \ deletedInvoice

DeleteInvoice(invoiceNumber, storeFails) ==
    /\ Pass
    /\ LET req == [invoiceNumber |-> invoiceNumber]
           deletedInvoice == FindOne(invoiceNumber)
       IN  IF storeFails
           THEN /\ Reply(Failed("DELETE /api/invoices/:invoiceNumber", req,
                                "Failed to delete invoice", StoreError))
                /\ UNCHANGED store
           ELSE IF deletedInvoice = {}
           THEN /\ Reply(Response("DELETE /api/invoices/:invoiceNumber", req, 404, NotFound, "none"))
                /\ UNCHANGED store
           ELSE /\ store' = Remove(deletedInvoice)
                /\ LET d == CHOOSE x \in deletedInvoice : TRUE IN
                   Reply(Response("DELETE /api/invoices/:invoiceNumber", req, 200,
                                  [success |-> TRUE, message |-> "Invoice deleted successfully",
                                   deletedInvoice |-> [id |-> d._id,
                                                       invoiceNumber |-> d.invoiceNumber]],
                                  "none"))
    /\ UNCHANGED <<env, inflight, tick>>

----------------------------------------------------------------------------
(* The routes without a store call *)

Health ==
    /\ Pass
    /\ Reply(Response("GET /api/health", <<>>, 200,
                      [status |-> "OK", message |-> "QRIS Invoice Backend API is running!",
                       version |-> "1.0.0",
                       environment |-> (IF env = "" THEN "development" ELSE env),
                       timestamp |-> tick,
                       uptime |-> tick],
                      "none"))
    /\ UNCHANGED <<env, store, inflight, tick>>

ApiInfo ==
    /\ Pass
    /\ Reply(Response("GET /api", <<>>, 200,
                      [name |-> "QRIS Invoice Generator API", version |-> "1.0.0",
                       description |-> "Backend API for managing QRIS invoices",
                       endpoints |-> [health |-> "GET /api/health",
                                      invoices |-> [create |-> "POST /api/invoices",
                                                    getByNumber |-> "GET /api/invoices/:invoiceNumber",
                                                    getAll |-> "GET /api/invoices",
                                                    delete |-> "DELETE /api/invoices/:invoiceNumber"]],
                       author |-> "PayInvoicely Team"],
                      "none"))
    /\ UNCHANGED <<env, store, inflight, tick>>

\* A 404 body that lacks the success flag.
EndpointNotFoundBare(path) == [error |-> "Endpoint not found", message |-> path]

EndpointNotFound(path) ==
    [success |-> FALSE, error |-> "Endpoint not found", message |-> path]

\* app.use('*'): a path no route matches, under /api/ (and so behind the limiter).
NotFoundHandler ==
    /\ Pass
    /\ Reply(Response("*", <<>>, 404, EndpointNotFound("Cannot GET /api/unknown"), "none"))
    /\ UNCHANGED <<env, store, inflight, tick>>

\* A path no route matches outside /api/: the limiter does not see it.
NotFoundHandlerOutsideApi ==
    /\ Admitted < MaxReqs
    /\ Reply(Response("*", <<>>, 404, EndpointNotFound("Cannot GET /"), "none"))
    /\ UNCHANGED <<env, store, inflight, hits, tick>>

\* What express.json() passes to next(error) for a body that is not JSON.
ParseFailed == [name |-> "SyntaxError", message |-> "Unexpected token in JSON"]

\* The global error handler, reached by a POST whose body express.json() rejects.
GlobalErrorHandler ==
    /\ Pass
    /\ Reply([Response("POST /api/invoices", <<>>, 500,
                       [success |-> FALSE, error |-> "Internal server error",
                        details |-> Details(ParseFailed, "Something went wrong")],
                       ParseFailed.name) EXCEPT !.by = "errorHandler"])
    /\ UNCHANGED <<env, store, inflight, tick>>

----------------------------------------------------------------------------
(* The specification *)

\* A document saved by an earlier run of the server.
SeedInvoice == NewInvoice(FullBody("INV-1"), 1)

Routes == {"POST /api/invoices", "GET /api/invoices/:invoiceNumber", "GET /api/invoices",
           "DELETE /api/invoices/:invoiceNumber", "GET /api/health", "GET /api", "*"}

\* The server has started: the collection is what earlier runs left in it, and the
\* limiter's window may hold hits of the client's earlier requests.
Init ==
    /\ env \in Envs
    /\ store \in {{}, {SeedInvoice}}
    /\ inflight = {}
    /\ responses = <<>>
    /\ hits \in {0, RateMax - 1}
    /\ tick = Cardinality(store) + 1

Next ==
    \/ \E invoiceData \in Bodies, storeFails \in BOOLEAN : PostInvoices(invoiceData, storeFails)
    \/ \E r \in inflight, storeFails \in BOOLEAN : PostInvoicesSave(r, storeFails)
    \/ \E n \in Nums, storeFails \in BOOLEAN : GetInvoice(n, storeFails)
    \/ \E query \in Queries, storeFails \in BOOLEAN : GetInvoices(query, storeFails)
    \/ \E r \in inflight, storeFails \in BOOLEAN : GetInvoicesCount(r, storeFails)
    \/ \E n \in Nums, storeFails \in BOOLEAN : DeleteInvoice(n, storeFails)
    \/ Health
    \/ ApiInfo
    \/ NotFoundHandler
    \/ NotFoundHandlerOutsideApi
    \/ GlobalErrorHandler
    \/ \E route \in Routes : TooManyRequests(route)

Spec == Init /\ [][Next]_vars

----------------------------------------------------------------------------
(* Vocabulary of the properties.  A store call that fails for a reason other *)
(* than the unique index or the schema answers 500; the properties of the    *)
(* routes are stated for the requests whose store calls did not fail so.     *)

Sent == 1..Len(responses)

StoredNumbers(docs) == {d.invoiceNumber : d \in docs}

StoreFailed(r) == r.logged = "MongoNetworkError"

\* Sent by the handler of a route, its store calls having worked.
Answered(r, route) == r.by = "handler" /\ r.route = route /\ ~StoreFailed(r)

IsCreate(r) == Answered(r, "POST /api/invoices")

IsGet(r) == Answered(r, "GET /api/invoices/:invoiceNumber")

IsList(r) == Answered(r, "GET /api/invoices")

IsDelete(r) == Answered(r, "DELETE /api/invoices/:invoiceNumber")

CarriesNumber(r, n) == Has(r.req, "invoiceNumber") /\ r.req.invoiceNumber = n

CarriesName(body) == Has(body, "customerInfo") /\ Has(body.customerInfo, "name")

CarriesItems(body) == Has(body, "items") /\ body.items # <<>>

ItemsSchemaValid(body) ==
    \A i \in 1..Len(body.items) :
        body.items[i].quantity >= 1 /\ body.items[i].price >= 0 /\ body.items[i].total >= 0

TotalsSchemaValid(body) ==
    /\ Has(body, "subtotal") /\ body.subtotal >= 0
    /\ Has(body, "total") /\ body.total >= 0

\* The step sends a response: the last of responses'.
Sends == Len(responses') = Len(responses) + 1

Last == responses'[Len(responses')]

\* The step is the first part of a handler (no suspended handler resumes in it).
FirstPart == inflight \subseteq inflight'

\* No delete of n succeeded among the responses i+1 .. j-1.
NoDeleteBetween(n, i, j) ==
    \A k \in (i + 1)..(j - 1) :
        ~(IsDelete(responses[k]) /\ CarriesNumber(responses[k], n) /\ responses[k].status = 200)

\* No create of n succeeded among the responses i+1 .. j-1.
NoCreateBetween(n, i, j) ==
    \A k \in (i + 1)..(j - 1) :
        ~(IsCreate(responses[k]) /\ CarriesNumber(responses[k], n) /\ responses[k].status = 201)

\* The create requests for n that passed the handler's own validation.
Creates(n) ==
    {i \in Sent : /\ IsCreate(responses[i])
                  /\ CarriesNumber(responses[i], n)
                  /\ CarriesName(responses[i].req)
                  /\ CarriesItems(responses[i].req)}

NeverDeleted(n) == NoDeleteBetween(n, 0, Len(responses) + 1)

----------------------------------------------------------------------------
(* C1 *)

\* C1 as stated: among the creates of one invoice number that carry a name and a
\* non-empty items array, with no delete of the number, at most one is answered 201
\* and, once one is, every other one is answered 409 with the conflict body.
C1_Original ==
    \A n \in Nums :
        NeverDeleted(n) =>
            /\ Cardinality({i \in Creates(n) : responses[i].status = 201}) <= 1
            /\ \A w \in Creates(n) :
                   responses[w].status = 201 =>
                       \A i \in Creates(n) \ {w} :
                           responses[i].status = 409 /\ responses[i].body = Conflict

\* C1, amended: at most one create of an invoice number is answered 201; every other
\* one whose document passes the schema is answered 409 with the conflict body, at
\* the pre-check or at the unique index alike; one whose document fails the schema is
\* answered 409 when it loses at the pre-check and 400 when it reaches save().
C1_Amended ==
    \A n \in Nums :
        NeverDeleted(n) =>
            /\ Cardinality({i \in Creates(n) : responses[i].status = 201}) <= 1
            /\ \A w \in Creates(n) :
                   responses[w].status = 201 =>
                       \A i \in Creates(n) \ {w} :
                           LET r == responses[i] IN
                           /\ r.status \in {409, 400}
                           /\ r.status = 409 => r.body = Conflict
                           /\ r.status = 400 =>
                                  ~(ItemsSchemaValid(r.req) /\ TotalsSchemaValid(r.req))

\* A create lost the race at the unique index after another create of the same
\* number was answered 201.
C1_Witness ==
    \E n \in Nums :
        \E w \in Creates(n), i \in Creates(n) :
            /\ w # i
            /\ NeverDeleted(n)
            /\ responses[w].status = 201
            /\ responses[i].status = 409
            /\ responses[i].logged = "MongoServerError"

----------------------------------------------------------------------------
(* C2 *)

\* C2: the collection never holds two documents with the same invoiceNumber.
C2_UniqueInvoiceNumber ==
    \A d \in store, e \in store : d.invoiceNumber = e.invoiceNumber => d = e

\* The unique index has rejected the insert of a second document for a stored number.
C2_Witness ==
    \E i \in Sent :
        /\ IsCreate(responses[i])
        /\ responses[i].logged = "MongoServerError"
        /\ responses[i].req.invoiceNumber \in StoredNumbers(store)

----------------------------------------------------------------------------
(* C3 *)

\* C3 as stated: a create whose invoice number is stored when the handler answers it
\* is answered 409, whatever the rest of its body.
C3_Original ==
    [][(/\ Sends
        /\ IsCreate(Last)
        /\ Has(Last.req, "invoiceNumber")
        /\ Last.req.invoiceNumber \in StoredNumbers(store))
       => Last.status = 409]_vars

\* C3, amended: a create that carries customerInfo.name and a non-empty items array
\* and whose invoice number is stored when the handler looks it up is answered 409
\* with the conflict body, whatever the rest of its body (items or totals the schema
\* rejects, no QR code); a create that lacks customerInfo.name or has no items is
\* answered 400 also when its invoice number is stored.
C3_Amended ==
    [][(/\ Sends
        /\ FirstPart
        /\ IsCreate(Last)
        /\ Has(Last.req, "invoiceNumber")
        /\ Last.req.invoiceNumber \in StoredNumbers(store))
       => IF CarriesName(Last.req) /\ CarriesItems(Last.req)
          THEN Last.status = 409 /\ Last.body = Conflict
          ELSE Last.status = 400]_vars

\* A create whose document the schema would reject was answered 409 at the pre-check.
C3_Witness ==
    \E i \in Sent :
        LET r == responses[i] IN
        /\ IsCreate(r)
        /\ r.status = 409
        /\ r.logged = "none"
        /\ CarriesName(r.req) /\ CarriesItems(r.req)
        /\ ~(ItemsSchemaValid(r.req) /\ TotalsSchemaValid(r.req))

----------------------------------------------------------------------------
(* C4 *)

Rejected(r, n) ==
    /\ IsCreate(r)
    /\ CarriesNumber(r, n)
    /\ ~(CarriesName(r.req) /\ CarriesItems(r.req))

\* A create that lacks customerInfo.name or has no items is answered 400 by a step
\* that leaves the collection as it was.
C4_Refused ==
    (Sends /\ IsCreate(Last) /\ ~(CarriesName(Last.req) /\ CarriesItems(Last.req)))
        => Last.status = 400 /\ store' = store

\* C4 as stated: such a create is answered 400 and leaves the collection unchanged,
\* and a get for its invoice number that follows is answered 404.
C4_Original ==
    [][/\ C4_Refused
       /\ \A n \in Nums :
              (/\ Sends
               /\ IsGet(Last)
               /\ CarriesNumber(Last, n)
               /\ \E i \in Sent : Rejected(responses[i], n))
              => Last.status = 404]_vars

\* C4, amended: such a create is answered 400 and leaves the collection unchanged;
\* a get for its invoice number that follows is answered 404 when no document with
\* that number is stored (none was before the create, none was created since) and
\* 200 when one is.
C4_Amended ==
    [][/\ C4_Refused
       /\ \A n \in Nums :
              (/\ Sends
               /\ IsGet(Last)
               /\ CarriesNumber(Last, n)
               /\ \E i \in Sent : Rejected(responses[i], n))
              => Last.status = (IF n \in StoredNumbers(store) THEN 200 ELSE 404)]_vars

\* A create without customerInfo.name or items was answered 400 and a later get for
\* its invoice number 404.
C4_Witness ==
    \E n \in Nums :
        \E i \in Sent, j \in Sent :
            /\ i < j
            /\ Rejected(responses[i], n)
            /\ responses[i].status = 400
            /\ IsGet(responses[j])
            /\ CarriesNumber(responses[j], n)
            /\ responses[j].status = 404

----------------------------------------------------------------------------
(* C5 *)

\* The invoice carries every field of the payload with the payload's value.
ContentEqual(invoice, payload) ==
    \A k \in DOMAIN payload : Has(invoice, k) /\ invoice[k] = payload[k]

\* A get that follows a create answered 201, with no delete of the number in between,
\* is answered 200 with the content of the create's payload.
GetAfterCreate ==
    \A i \in Sent, j \in Sent :
        (/\ i < j
         /\ IsCreate(responses[i])
         /\ responses[i].status = 201
         /\ IsGet(responses[j])
         /\ CarriesNumber(responses[j], responses[i].req.invoiceNumber)
         /\ NoDeleteBetween(responses[i].req.invoiceNumber, i, j))
        => /\ responses[j].status = 200
           /\ ContentEqual(responses[j].body.invoice, responses[i].req)

----------------------------------------------------------------------------
(* C6 *)

\* A get that follows a delete answered 200, with no create of the number in
\* between, is answered 404.
GetAfterDelete ==
    \A i \in Sent, j \in Sent :
        (/\ i < j
         /\ IsDelete(responses[i])
         /\ responses[i].status = 200
         /\ IsGet(responses[j])
         /\ CarriesNumber(responses[j], responses[i].req.invoiceNumber)
         /\ NoCreateBetween(responses[i].req.invoiceNumber, i, j))
        => responses[j].status = 404

\* C6: a delete of a stored invoice number removes that document and no other in the
\* step that answers it, with 200 and the document's id and number, and a get that
\* follows is answered 404; a delete of a number that is not stored is answered 404
\* and leaves the collection as it was.
C6_Delete ==
    [][/\ (Sends /\ IsDelete(Last)) =>
              LET n == Last.req.invoiceNumber IN
              IF n \in StoredNumbers(store)
              THEN \E d \in store :
                       /\ d.invoiceNumber = n
                       /\ store' = store \ {d}
                       /\ Last.status = 200
                       /\ Last.body.success
                       /\ Last.body.deletedInvoice = [id |-> d._id, invoiceNumber |-> n]
              ELSE Last.status = 404 /\ store' = store
       /\ GetAfterDelete']_vars

\* A delete was answered 200 and a later get for the deleted number 404.
C6_Witness ==
    \E i \in Sent, j \in Sent :
        /\ i < j
        /\ IsDelete(responses[i])
        /\ responses[i].status = 200
        /\ IsGet(responses[j])
        /\ CarriesNumber(responses[j], responses[i].req.invoiceNumber)
        /\ responses[j].status = 404

----------------------------------------------------------------------------
(* C7 *)

\* C7: a delete of an invoice number that follows a delete of it answered 200, with
\* no create of the number in between, is answered 404; no document is deleted twice.
C7_DeleteOnce ==
    /\ \A i \in Sent, j \in Sent :
           (/\ i < j
            /\ IsDelete(responses[i])
            /\ responses[i].status = 200
            /\ IsDelete(responses[j])
            /\ CarriesNumber(responses[j], responses[i].req.invoiceNumber)
            /\ NoCreateBetween(responses[i].req.invoiceNumber, i, j))
           => responses[j].status = 404
    /\ \A i \in Sent, j \in Sent :
           (/\ i # j
            /\ IsDelete(responses[i]) /\ responses[i].status = 200
            /\ IsDelete(responses[j]) /\ responses[j].status = 200)
           => responses[i].body.deletedInvoice.id # responses[j].body.deletedInvoice.id

\* A delete was answered 200 and the delete of the same number after it 404.
C7_Witness ==
    \E i \in Sent, j \in Sent :
        /\ i < j
        /\ IsDelete(responses[i])
        /\ responses[i].status = 200
        /\ IsDelete(responses[j])
        /\ CarriesNumber(responses[j], responses[i].req.invoiceNumber)
        /\ responses[j].status = 404

----------------------------------------------------------------------------
(* C8 *)

\* C8 as stated: a list response holds at most limit invoices, none with the
\* dynamicQRCode field, and hasMore is skip + limit < total.
C8_Original ==
    \A i \in Sent :
        LET r == responses[i] IN
        (IsList(r) /\ r.status = 200) =>
            /\ Len(r.body.invoices) <= r.body.pagination.limit
            /\ \A k \in 1..Len(r.body.invoices) : ~Has(r.body.invoices[k], "dynamicQRCode")
            /\ r.body.pagination.hasMore =
                   (r.body.pagination.skip + r.body.pagination.limit < r.body.pagination.total)

----------------------------------------------------------------------------
(* C9 *)

HasSuccess(r) ==
    /\ Has(r.body, "success")
    /\ r.body.success \in BOOLEAN
    /\ r.status >= 400 => Has(r.body, "error") /\ r.body.error \in STRING

\* C9 as stated: every response has a boolean success, and every failure an error.
C9_Original == \A i \in Sent : HasSuccess(responses[i])

\* C9, amended: every response of the create, get, list and delete handlers, of the
\* handler of unmatched paths and of the global error handler has a boolean success,
\* true exactly on the 2xx responses, and every failure of them an error string; the
\* health and API info responses and the limiter's 429 have no success field.
C9_Amended ==
    \A i \in Sent :
        LET r == responses[i] IN
        IF r.by = "limiter" \/ r.route \in {"GET /api/health", "GET /api"}
        THEN ~Has(r.body, "success")
        ELSE HasSuccess(r) /\ r.body.success = (r.status < 400)

\* A path no route matches has been answered, and so has the health route.
C9_Witness ==
    /\ \E i \in Sent : responses[i].route = "*" /\ responses[i].status = 404
    /\ \E i \in Sent : responses[i].route = "GET /api/health" /\ responses[i].by = "handler"

----------------------------------------------------------------------------
(* C10 *)

MessageOf(name) ==
    (CHOOSE e \in {E11000, ValidationError, StoreError, ParseFailed} : e.name = name).message

\* C10 as stated: a failed store call is answered 500; the 500's details is the
\* error's message when NODE_ENV is not production, and no failure response carries
\* the error's message when it is.
C10_Original ==
    \A i \in Sent :
        LET r == responses[i] IN
        /\ StoreFailed(r) => r.status = 500
        /\ (r.status = 500 /\ env # "production") =>
               Has(r.body, "details") /\ r.body.details = MessageOf(r.logged)
        /\ (r.status >= 400 /\ r.logged # "none" /\ env = "production") =>
               ~(Has(r.body, "details") /\ r.body.details = MessageOf(r.logged))

====
